---- MODULE Spec2Model ----
(***************************************************************************)
(* A model of `deno add` (cli/tools/registry/pm.rs): manifest discovery,   *)
(* requirement parsing, the buffered concurrent resolution loop, the merge *)
(* of the resolved entries into the existing dependency map and the final  *)
(* write of the manifest.                                                  *)
(*                                                                         *)
(* Strings are sequences of one-character strings, so that prefixes,       *)
(* concatenation and the byte-wise order of Rust's String are computed.    *)
(***************************************************************************)
EXTENDS Integers, Sequences, FiniteSets, TLC

VARIABLES
  edits,                       \* text_changes: the edits of the manifest's text
  edited_text,                 \* the text with the edits applied, before the formatter runs
  previous,                    \* what the previous run of `add` left, as <<record>> (<<>>: first run)
  fs0,                         \* the files of the working directory when `add` starts
  fs,                          \* the files of the working directory: path -> text or NoFile
  flags,                       \* Flags: how the config is located, the feature flag
  packages,                    \* add_flags.packages: the raw identifiers
  writes,                      \* the log of file writes: path, text, the function writing
  pc,                          \* the position of `add`
  outcome,                     \* the Result of `add` (and a panic), with the package an error names
  config_file,                 \* the DenoOrPackageJson chosen by from_flags
  package_reqs,                \* the parsed AddPackageReq list
  futures,                     \* package_futures inside buffer_unordered: state and output of each
  package_and_version_result,  \* the index of the lookup whose result the loop took last (0: none)
  selected_packages,           \* the SelectedPackage values, in completion order
  config_file_contents,        \* the document read back from the manifest
  existing_imports,            \* the IndexMap being merged, as a sequence of <<name, specifier>>
  import_list,                 \* the sorted list handed to generate_imports
  new_text                     \* the document computed by update_config_file_content

vars == <<edits, edited_text, previous, fs0, fs, flags, packages, writes, pc, outcome, config_file, package_reqs,
          futures, package_and_version_result, selected_packages,
          config_file_contents, existing_imports, import_list, new_text>>

------------------------------------------------------------------------------
(* Bounds and program constants *)

\* the longest list of raw identifiers of an ordinary batch
MaxPkgs == 2

\* how many requirements the wide batch has beyond the buffer's capacity
Extra == 1

\* the longest list of raw identifiers `add` is run a second time with
MaxAgain == 1

\* buffer_unordered(10)
BufferLimit == 10

------------------------------------------------------------------------------
(* Strings *)

\* the byte of a character (Rust compares Strings byte-wise)
CharCode(c) ==
  CASE c = "\"" -> 34 [] c = "l" -> 108 [] c = "u" -> 117 [] c = "\\" -> 92
    [] c = "/" -> 47 [] c = "0" -> 48 [] c = "1" -> 49 [] c = "2" -> 50
    [] c = ":" -> 58 [] c = "@" -> 64 [] c = "^" -> 94 [] c = "_" -> 95
    [] c = "a" -> 97 [] c = "b" -> 98 [] c = "j" -> 106 [] c = "m" -> 109
    [] c = "n" -> 110 [] c = "p" -> 112 [] c = "r" -> 114 [] c = "s" -> 115
    [] c = "z" -> 122 [] c = "~" -> 126

\* str::starts_with
starts_with(s, prefix) ==
  /\ Len(prefix) <= Len(s)
  /\ SubSeq(s, 1, Len(prefix)) = prefix

\* str::strip_prefix(..).unwrap_or(s)
strip_prefix_or(s, prefix) ==
  IF starts_with(s, prefix) THEN SubSeq(s, Len(prefix) + 1, Len(s)) ELSE s

\* String's Ord: the first differing byte decides, a proper prefix is smaller
StrLess(a, b) ==
  \E i \in 1..(Len(b)) :
    /\ \A j \in 1..(i - 1) : j <= Len(a) /\ a[j] = b[j]
    /\ \/ i = Len(a) + 1
       \/ i <= Len(a) /\ CharCode(a[i]) < CharCode(b[i])

NpmPrefix == <<"n", "p", "m", ":">>
JsrPrefix == <<"j", "s", "r", ":">>

------------------------------------------------------------------------------
(* Requirements: the classifier of lines 196-218 *)

\* the offset of the "@" that separates name and version constraint (0: none);
\* a leading "@" belongs to the scope of the name
version_separator(s) ==
  IF \E i \in 2..Len(s) : s[i] = "@"
    THEN CHOOSE i \in 2..Len(s) : s[i] = "@" /\ \A j \in 2..(i - 1) : s[j] # "@"
    ELSE 0

\* JsrPackageReqReference::from_str / NpmPackageReqReference::from_str on
\* "<scheme>:<rest>": the name, the constraint text ("*" when none is given),
\* an error when the name is empty
req_from_str(kind, prefix, text) ==
  LET rest == strip_prefix_or(text, prefix)
      sep  == version_separator(rest)
      name == IF sep = 0 THEN rest ELSE SubSeq(rest, 1, sep - 1)
      vtxt == IF sep = 0 THEN <<"*">> ELSE SubSeq(rest, sep + 1, Len(rest))
  IN  [ok |-> name # <<>> /\ name # <<"@">>, kind |-> kind, name |-> name,
       version_text |-> vtxt]

\* one iteration of the loop of lines 196-218
parse_package(package_name) ==
  IF starts_with(package_name, NpmPrefix)
    THEN req_from_str("npm", NpmPrefix,
                      NpmPrefix \o strip_prefix_or(package_name, NpmPrefix))
    ELSE req_from_str("jsr", JsrPrefix,
                      JsrPrefix \o strip_prefix_or(package_name, JsrPrefix))

\* first_unparsed, were only the first identifier validated before the lookups
first_unparsed_HeadOnly(names) ==
  IF names # <<>> /\ ~parse_package(names[1]).ok THEN 1 ELSE 0

\* the offset of the first identifier that does not parse (0: none)
first_unparsed(names) ==
  IF \A i \in 1..Len(names) : parse_package(names[i]).ok THEN 0
  ELSE CHOOSE i \in 1..Len(names) :
         /\ ~parse_package(names[i]).ok
         /\ \A j \in 1..(i - 1) : parse_package(names[j]).ok

\* the loop of lines 196-218 stopped at identifier `stop` (0: ran to the end)
parsed_until(names, stop) ==
  [ok   |-> stop = 0,
   reqs |-> [i \in 1..(IF stop = 0 THEN Len(names) ELSE stop - 1) |->
               parse_package(names[i])],
   bad  |-> IF stop = 0 THEN <<>> ELSE names[stop]]

\* the loop of lines 196-218: the requirements pushed before it stops, and the
\* identifier that stopped it
parse_all(names) == parsed_until(names, first_unparsed(names))

------------------------------------------------------------------------------
(* The structural parser: jsonc_parser::parse_to_ast on a subset of JSON
   (objects, strings, numbers, blanks).  Offsets are byte offsets from 0; a
   range is [start, end). *)

at(t, p) == IF p < Len(t) THEN t[p + 1] ELSE "eof"

Blank == {" ", "\n"}
Digit == {"0", "1", "2"}

RECURSIVE skip_ws(_, _)
skip_ws(t, p) == IF at(t, p) \in Blank THEN skip_ws(t, p + 1) ELSE p

\* the offset of the quote that closes a string literal: an escaped character
\* is passed over
RECURSIVE scan_to_quote(_, _)
scan_to_quote(t, p) ==
  IF p >= Len(t) \/ at(t, p) = "\"" THEN p
  ELSE IF at(t, p) = "\\" THEN scan_to_quote(t, p + 2)
  ELSE scan_to_quote(t, p + 1)

\* the characters a string literal stands for
RECURSIVE unescape(_)
unescape(s) ==
  IF s = <<>> THEN <<>>
  ELSE IF Head(s) = "\\" /\ Len(s) >= 2 THEN <<s[2]>> \o unescape(Tail(Tail(s)))
  ELSE <<Head(s)>> \o unescape(Tail(s))

RECURSIVE scan_digits(_, _)
scan_digits(t, p) == IF at(t, p) \in Digit THEN scan_digits(t, p + 1) ELSE p

BadValue == [kind |-> "bad", start |-> 0, end |-> 0, str |-> <<>>, props |-> <<>>]

\* a string literal whose opening quote is at offset p
parse_string(t, p) ==
  LET q == scan_to_quote(t, p + 1) IN
  IF q >= Len(t) THEN BadValue
  ELSE [kind |-> "string", start |-> p, end |-> q + 1,
        str |-> unescape(SubSeq(t, p + 2, q)), props |-> <<>>]

RECURSIVE parse_value(_, _)
RECURSIVE parse_members(_, _, _, _)
RECURSIVE after_value(_, _, _, _, _)

\* the value that starts at offset p
parse_value(t, p) ==
  CASE at(t, p) = "{"  -> parse_members(t, skip_ws(t, p + 1), p, <<>>)
    [] at(t, p) = "\"" -> parse_string(t, p)
    [] at(t, p) \in Digit ->
         [kind |-> "number", start |-> p, end |-> scan_digits(t, p),
          str |-> <<>>, props |-> <<>>]
    [] p + 4 <= Len(t) /\ SubSeq(t, p + 1, p + 4) = <<"n", "u", "l", "l">> ->
         [kind |-> "null", start |-> p, end |-> p + 4, str |-> <<>>, props |-> <<>>]
    [] OTHER -> BadValue

\* the value of a property: v, parsed after the property's name and colon;
\* p is the offset of what follows it.  A comma is passed over when there is
\* one: the parser asks for none between properties and takes one before the
\* closing brace
after_value(t, p, start, acc, v) ==
  IF v.kind = "bad" THEN BadValue
  ELSE IF at(t, p) = "," THEN parse_members(t, skip_ws(t, p + 1), start, acc)
  ELSE parse_members(t, p, start, acc)

\* a property whose name k is parsed; p is the offset of what follows the name
member(t, p, start, acc, k, v) ==
  after_value(t, skip_ws(t, v.end), start,
              Append(acc, [name |-> k.str, literal |-> SubSeq(t, k.start + 1, k.end),
                           value |-> v]), v)

after_name(t, p, start, acc, k) ==
  IF k.kind = "bad" \/ at(t, p) # ":" THEN BadValue
  ELSE member(t, p, start, acc, k, parse_value(t, skip_ws(t, p + 1)))

\* the properties of the object opened at offset start, from offset p on
parse_members(t, p, start, acc) ==
  IF at(t, p) = "}"
    THEN [kind |-> "object", start |-> start, end |-> p + 1, str |-> <<>>,
          props |-> acc]
  ELSE IF at(t, p) # "\"" THEN BadValue
  ELSE after_name(t, skip_ws(t, parse_string(t, p).end), start, acc,
                  parse_string(t, p))

\* parse_to_ast: [ok, value]; the value of a blank text is "none"
whole_value(t, v) ==
  IF v.kind = "bad" \/ skip_ws(t, v.end) < Len(t)
    THEN [ok |-> FALSE, value |-> BadValue]
    ELSE [ok |-> TRUE, value |-> v]

document_at(t, p) ==
  IF p >= Len(t)
    THEN [ok |-> TRUE, value |-> [BadValue EXCEPT !.kind = "none"]]
    ELSE whole_value(t, parse_value(t, p))

parse_to_ast(t) == document_at(t, skip_ws(t, 0))

\* Object::get: the first property with the name, as <<property>> or <<>>
object_get(obj, key) ==
  IF \A i \in 1..Len(obj.props) : obj.props[i].name # key THEN <<>>
  ELSE <<obj.props[CHOOSE i \in 1..Len(obj.props) :
                     /\ obj.props[i].name = key
                     /\ \A j \in 1..(i - 1) : obj.props[j].name # key]>>


------------------------------------------------------------------------------
(* The manifest abstraction: DenoOrPackageJson *)

NoFile == <<"no file">>

ImportsKey == <<"i", "m", "p", "o", "r", "t", "s">>
DependenciesKey == <<"d", "e", "p", "e", "n", "d", "e", "n", "c", "i", "e", "s">>

\* the text "{}\n" written by from_flags and substituted for a blank file
EmptyObjectText == <<"{", "}", "\n">>

\* DenoOrPackageJson::imports_key
imports_key(cf) == IF cf.kind = "Deno" THEN ImportsKey ELSE DependenciesKey

\* DenoOrPackageJson::file_name
file_name(cf) == IF cf.kind = "Deno" THEN cf.format ELSE "package.json"

\* DenoOrPackageJson::is_npm
is_npm(cf) == cf.kind = "Npm"

\* the top-level object a config loader keeps of a text (an empty object for a
\* blank file), as <<object>>, or <<>> when the text is no object
json_of_ast(ast) ==
  IF ~ast.ok THEN <<>>
  ELSE IF ast.value.kind = "none"
    THEN <<[kind |-> "object", start |-> 0, end |-> 0, str |-> <<>>, props |-> <<>>]>>
  ELSE IF ast.value.kind = "object" THEN <<ast.value>>
  ELSE <<>>

loaded_json(text) == json_of_ast(parse_to_ast(text))

\* the entries of an object value as <<name, specifier>> pairs
RECURSIVE string_entries(_)
string_entries(props) ==
  IF props = <<>> THEN <<>>
  ELSE IF Head(props).value.kind = "string"
    THEN <<<<Head(props).name, Head(props).value.str>>>> \o string_entries(Tail(props))
    ELSE string_entries(Tail(props))

\* the property of the dependency section in a loaded config, as <<property>>
\* or <<>>
section_of(json, key) == IF json = <<>> THEN <<>> ELSE object_get(json[1], key)

\* serde_json::from_value::<IndexMap<String, String>> succeeds on the value
is_string_map(value) ==
  /\ value.kind = "object"
  /\ \A i \in 1..Len(value.props) : value.props[i].value.kind = "string"

\* existing_imports on the section's property
imports_of_section(kind, prop) ==
  IF kind = "Deno"
    \* deno.json.imports is an Option: None for a missing and for a null "imports"
    THEN IF prop = <<>> \/ prop[1].value.kind = "null" THEN [ok |-> TRUE, map |-> <<>>]
         ELSE IF is_string_map(prop[1].value)
           THEN [ok |-> TRUE, map |-> string_entries(prop[1].value.props)]
           ELSE [ok |-> FALSE, map |-> <<>>]
    \* PackageJson keeps the string-valued entries of an object-valued
    \* "dependencies" and None for anything else
    ELSE IF prop # <<>> /\ prop[1].value.kind = "object"
           THEN [ok |-> TRUE, map |-> string_entries(prop[1].value.props)]
           ELSE [ok |-> TRUE, map |-> <<>>]

\* DenoOrPackageJson::existing_imports: [ok, map]
existing_imports_of(cf) ==
  imports_of_section(cf.kind, section_of(loaded_json(cf.text), imports_key(cf)))

------------------------------------------------------------------------------
(* The version resolver *)

NoResult == [tag |-> "none", import_name |-> <<>>, package_name |-> <<>>,
             version_req |-> <<>>]

\* the prefix "jsr:" or "npm:" of a requirement's kind
registry_prefix(req) == IF req.kind = "npm" THEN NpmPrefix ELSE JsrPrefix

\* range_symbol, were the constraint's operator not looked at
range_symbol_Caret(req) == <<"^">>

\* the range symbol of lines 361-365 and 378-382
range_symbol(req) ==
  IF starts_with(req.version_text, <<"~">>) THEN <<"~">> ELSE <<"^">>

\* find_package_and_select_version_for_req, given what req_to_nv answered:
\* <<version>> or <<>>
find_package_and_select_version_for_req(req, nv) ==
  IF nv = <<>>
    THEN [NoResult EXCEPT !.tag = "NotFound",
                          !.package_name = registry_prefix(req) \o req.name]
    ELSE [tag |-> "Selected",
          import_name |-> req.name,
          package_name |-> registry_prefix(req) \o req.name,
          version_req |-> range_symbol(req) \o nv[1]]

------------------------------------------------------------------------------
(* The entry merger *)

\* str::replace('/', "__")
RECURSIVE replace_slash(_)
replace_slash(s) ==
  IF s = <<>> THEN <<>>
  ELSE (IF Head(s) = "/" THEN <<"_", "_">> ELSE <<Head(s)>>) \o replace_slash(Tail(s))


\* package_json_dependency_entry, were the entry of a package.json built as
\* that of a deno.json
package_json_dependency_entry_Canonical(selected) ==
  <<selected.import_name, selected.package_name \o <<"@">> \o selected.version_req>>

\* package_json_dependency_entry
package_json_dependency_entry(selected) ==
  IF starts_with(selected.package_name, NpmPrefix)
    THEN <<strip_prefix_or(selected.package_name, NpmPrefix), selected.version_req>>
  ELSE IF starts_with(selected.package_name, JsrPrefix)
    THEN LET jsr_package == strip_prefix_or(
                              strip_prefix_or(selected.package_name, JsrPrefix), <<"@">>)
         IN  <<selected.import_name,
               NpmPrefix \o <<"@", "j", "s", "r", "/">> \o replace_slash(jsr_package)
                 \o <<"@">> \o selected.version_req>>
  ELSE <<selected.package_name, selected.version_req>>

\* the (name, specifier) pair of lines 292-303
dependency_entry(npm, selected) ==
  IF npm THEN package_json_dependency_entry(selected)
  ELSE <<selected.import_name,
         selected.package_name \o <<"@">> \o selected.version_req>>

\* index_map_insert, were an occupied entry left as it is (entry().or_insert)
index_map_insert_KeepOld(map, k, v) ==
  IF \E i \in 1..Len(map) : map[i][1] = k THEN map ELSE Append(map, <<k, v>>)

\* IndexMap::insert: an existing key keeps its place and gets the new value, a
\* new key goes to the end
index_map_insert(map, k, v) ==
  IF \E i \in 1..Len(map) : map[i][1] = k
    THEN [i \in 1..Len(map) |-> IF map[i][1] = k THEN <<k, v>> ELSE map[i]]
    ELSE Append(map, <<k, v>>)

\* the loop of lines 284-304
RECURSIVE merge_selected(_, _, _)
merge_selected(map, npm, selected) ==
  IF selected = <<>> THEN map
  ELSE LET e == dependency_entry(npm, Head(selected)) IN
       merge_selected(index_map_insert(map, e[1], e[2]), npm, Tail(selected))

\* one step of the stable sort: x goes after the last element whose key is
\* not greater
RECURSIVE sorted_insert(_, _)
sorted_insert(sorted, x) ==
  IF sorted = <<>> THEN <<x>>
  ELSE IF StrLess(x[1], Head(sorted)[1]) THEN <<x>> \o sorted
  ELSE <<Head(sorted)>> \o sorted_insert(Tail(sorted), x)

\* sort_by_key, were the sort left out
sort_by_key_Unsorted(list) == list

\* import_list.sort_by(|(k1, _), (k2, _)| k1.cmp(k2))
RECURSIVE sort_by_key(_)
sort_by_key(list) ==
  IF list = <<>> THEN <<>>
  ELSE sorted_insert(sort_by_key(SubSeq(list, 1, Len(list) - 1)), list[Len(list)])


------------------------------------------------------------------------------
(* The renderer and the document patcher *)

Quoted(s) == <<"\"">> \o s \o <<"\"">>

\* generate_imports: the entries as "name": "specifier", a line with a comma
\* between two entries, joined by newlines
RECURSIVE generate_imports(_)
generate_imports(packages_to_version) ==
  IF packages_to_version = <<>> THEN <<>>
  ELSE LET e    == Head(packages_to_version)
           line == Quoted(e[1]) \o <<":", " ">> \o Quoted(e[2])
       IN  IF Len(packages_to_version) = 1 THEN line
           ELSE line \o <<"\n", ",", "\n">> \o generate_imports(Tail(packages_to_version))

\* deno_ast::apply_text_changes with one change
apply_text_change(text, change) ==
  SubSeq(text, 1, change.start) \o change.new_text
    \o SubSeq(text, change.end + 1, Len(text))

\* changes_for, were the section inserted at the end of the top-level object's
\* range, behind its closing brace
changes_for_AtEnd(obj, prop, generated_imports, key) ==
  IF prop # <<>> /\ prop[1].value.kind = "object"
    THEN <<[start |-> prop[1].value.start + 1, end |-> prop[1].value.end - 1,
            new_text |-> generated_imports]>>
  ELSE IF prop = <<>>
    THEN <<[start |-> obj.end, end |-> obj.end,
            new_text |-> Quoted(key) \o <<":", " ", "{", "\n", " ">>
                           \o generated_imports \o <<" ", "}">>]>>
  ELSE <<>>

\* changes_for, were the range of the first edit that of the whole value, braces
\* included
changes_for_WholeValue(obj, prop, generated_imports, key) ==
  IF prop # <<>> /\ prop[1].value.kind = "object"
    THEN <<[start |-> prop[1].value.start, end |-> prop[1].value.end,
            new_text |-> generated_imports]>>
  ELSE IF prop = <<>>
    THEN <<[start |-> obj.end - 1, end |-> obj.end - 1,
            new_text |-> Quoted(key) \o <<":", " ", "{", "\n", " ">>
                           \o generated_imports \o <<" ", "}">>]>>
  ELSE <<>>

\* the match of lines 420-445 on the property found: <<change>>, or <<>> where
\* the code is unreachable!()
changes_for(obj, prop, generated_imports, key) ==
  IF prop # <<>> /\ prop[1].value.kind = "object"
    THEN <<[start |-> prop[1].value.start + 1, end |-> prop[1].value.end - 1,
            new_text |-> generated_imports]>>
  ELSE IF prop = <<>>
    THEN <<[start |-> obj.end - 1, end |-> obj.end - 1,
            new_text |-> Quoted(key) \o <<":", " ", "{", "\n", " ">>
                           \o generated_imports \o <<" ", "}">>]>>
  ELSE <<>>

text_changes(obj, generated_imports, key) ==
  changes_for(obj, object_get(obj, key), generated_imports, key)

RECURSIVE indent(_)
indent(n) == IF n = 0 THEN <<>> ELSE <<" ", " ">> \o indent(n - 1)

RECURSIVE render_value(_, _, _)
RECURSIVE render_members(_, _, _)

\* a value laid out by the formatter at nesting depth n
render_value(t, v, n) ==
  IF v.kind = "object"
    THEN IF v.props = <<>> THEN <<"{", "}">>
         ELSE <<"{", "\n">> \o render_members(t, v.props, n + 1)
                \o <<"\n">> \o indent(n) \o <<"}">>
    ELSE SubSeq(t, v.start + 1, v.end)

render_members(t, props, n) ==
  LET p    == Head(props)
      line == indent(n) \o p.literal \o <<":", " ">> \o render_value(t, p.value, n)
  IN  IF Len(props) = 1 THEN line
      ELSE line \o <<",", "\n">> \o render_members(t, Tail(props), n)

\* the formatter's text for a parsed document
formatted_ast(text, ast) ==
  IF ~ast.ok \/ ast.value.kind = "none" THEN <<>>
  ELSE <<render_value(text, ast.value, 0) \o <<"\n">>>>

\* crate::tools::fmt::format_json: <<formatted text>>, or <<>> when the text
\* does not parse
format_json(text) == formatted_ast(text, parse_to_ast(text))

\* lines 450-457: the formatted text, or the edited text when there is none
formatted_or(edited, formatted) == IF formatted = <<>> THEN edited ELSE formatted[1]

\* lines 447-457 on the edited text
format_edited(edited) == formatted_or(edited, format_json(edited))

\* lines 418-457 on the changes computed
apply_and_format(contents, changes) ==
  IF changes = <<>> THEN [panic |-> TRUE, text |-> <<>>]
  ELSE [panic |-> FALSE,
        text |-> format_edited(apply_text_change(contents, changes[1]))]

\* update_config_file_content: [panic, text]
update_config_file_content(obj, contents, generated_imports, key) ==
  apply_and_format(contents, text_changes(obj, generated_imports, key))

------------------------------------------------------------------------------
(* The inputs: raw identifiers, registry versions, manifests *)

\* "npm:a"
RawNpmA == <<"n", "p", "m", ":", "a">>
\* "jsr:@s/b"
RawJsrSB == <<"j", "s", "r", ":", "@", "s", "/", "b">>
\* "npm:@s/b@~1": the import name of RawJsrSB, from the other registry, with a
\* "~" constraint
RawNpmSB == <<"n", "p", "m", ":", "@", "s", "/", "b", "@", "~", "1">>
\* "a@~1": no scheme, a "~" constraint
RawTildeA == <<"a", "@", "~", "1">>
\* "npm:": no name
RawNoName == <<"n", "p", "m", ":">>

RawIds == {RawNpmA, RawJsrSB, RawNpmSB, RawTildeA, RawNoName}

\* the versions a registry may answer
Versions == {<<"2">>}

\* the versions a registry may answer when `add` is run again
LaterVersions == {<<"1">>, <<"2">>}

RECURSIVE SeqsUpTo(_, _)
SeqsUpTo(S, n) ==
  IF n = 0 THEN {<<>>}
  ELSE LET shorter == SeqsUpTo(S, n - 1) IN
       shorter \cup {Append(q, x) : q \in {r \in shorter : Len(r) = n - 1}, x \in S}

\* the ordinary batches
Batches == SeqsUpTo(RawIds, MaxPkgs)

\* a batch wider than the buffer: "npm:a" throughout
WideBatch == [i \in 1..(BufferLimit + Extra) |-> RawNpmA]

Member(key, value) == Quoted(key) \o <<":">> \o value
Object(body) == <<"{">> \o body \o <<"}">>

\* a blank deno.json
DenoBlank == <<"\n">>
\* {"n":1}
DenoOther == Object(Member(<<"n">>, <<"1">>))
\* {"imports":{"z":"npm:z@^1","a":"npm:a@^0"}}
DenoImports ==
  Object(Member(ImportsKey,
    Object(Member(<<"z">>, Quoted(<<"n", "p", "m", ":", "z", "@", "^", "1">>))
           \o <<",">> \o
           Member(<<"a">>, Quoted(<<"n", "p", "m", ":", "a", "@", "^", "0">>)))))
\* {"imports":"z"}
DenoScalar == Object(Member(ImportsKey, Quoted(<<"z">>)))
\* {"imports":{"a":1}}
DenoNonFlat == Object(Member(ImportsKey, Object(Member(<<"a">>, <<"1">>))))

\* {"imports":{"\"":"z"}}: the name of the entry is a quote
DenoEscaped ==
  Object(Member(ImportsKey, Object(Member(<<"\\", "\"">>, Quoted(<<"z">>)))))

\* {"imports":null}
DenoNull == Object(Member(ImportsKey, <<"n", "u", "l", "l">>))

DenoTexts ==
  {DenoBlank, EmptyObjectText, DenoOther, DenoImports, DenoScalar, DenoNonFlat,
   DenoEscaped, DenoNull}

\* {"dependencies":{"z":"^1"}}
PkgDeps ==
  Object(Member(DependenciesKey, Object(Member(<<"z">>, Quoted(<<"^", "1">>)))))
\* {"dependencies":"z"}
PkgScalar == Object(Member(DependenciesKey, Quoted(<<"z">>)))

PkgTexts == {<<"{", "}">>, PkgDeps, PkgScalar}

Paths == {"deno.json", "deno.jsonc", "cfg.json", "package.json"}

NoFiles == [p \in Paths |-> NoFile]

\* the flags that locate the config by discovery
Discover(fut) == [config |-> "discover", future |-> fut]

\* the working directories and flags `add` is started with
Environments ==
  \* a deno.json and no package.json
  {[flags |-> Discover(FALSE), fs |-> [NoFiles EXCEPT !["deno.json"] = d]] :
      d \in DenoTexts}
  \cup
  \* no deno.json, and a package.json or none
  {[flags |-> Discover(fut), fs |-> [NoFiles EXCEPT !["package.json"] = p]] :
      p \in PkgTexts \cup {NoFile}, fut \in BOOLEAN}
  \cup
  \* both manifests
  {[flags |-> Discover(TRUE),
    fs |-> [NoFiles EXCEPT !["deno.json"] = d, !["package.json"] = PkgDeps]] :
      d \in {DenoImports, DenoOther}}
  \cup
  {[flags |-> Discover(FALSE), fs |-> [NoFiles EXCEPT !["deno.jsonc"] = DenoImports]],
   [flags |-> [config |-> "explicit", future |-> FALSE],
    fs |-> [NoFiles EXCEPT !["cfg.json"] = EmptyObjectText]],
   [flags |-> [config |-> "remote", future |-> FALSE], fs |-> NoFiles],
   [flags |-> [config |-> "disabled", future |-> FALSE], fs |-> NoFiles]}

\* the working directories the wide batch is run in
WideEnvironments ==
  {e \in Environments :
     /\ e.flags = Discover(FALSE)
     /\ e.fs["package.json"] = NoFile
     /\ e.fs["deno.json"] = DenoImports
     /\ e.fs["deno.jsonc"] = NoFile}

------------------------------------------------------------------------------
(* Discovery: what CliFactory::from_flags exposes of the flags and the files *)

NoConfig == [found |-> FALSE, kind |-> "none", path |-> "", scheme |-> "",
             format |-> "", text |-> <<>>]

\* options.maybe_config_file()
maybe_config_file(fl, files) ==
  LET local(path) == [found |-> TRUE, kind |-> "Deno", path |-> path,
                      scheme |-> "file", format |-> path, text |-> files[path]]
  IN  CASE fl.config = "remote" ->
             [found |-> TRUE, kind |-> "Deno", path |-> "deno.json",
              scheme |-> "https", format |-> "deno.json", text |-> EmptyObjectText]
        [] fl.config = "explicit" /\ files["cfg.json"] # NoFile -> local("cfg.json")
        [] fl.config = "discover" /\ files["deno.json"] # NoFile -> local("deno.json")
        [] fl.config = "discover" /\ files["deno.jsonc"] # NoFile -> local("deno.jsonc")
        [] OTHER -> NoConfig

\* options.maybe_package_json()
maybe_package_json(fl, files) ==
  IF files["package.json"] = NoFile THEN NoConfig
  ELSE [found |-> TRUE, kind |-> "Npm", path |-> "package.json", scheme |-> "file",
        format |-> "package.json", text |-> files["package.json"]]

\* DenoConfigFormat::from_specifier succeeds
supported_config_name(path) == path \in {"deno.json", "deno.jsonc"}


------------------------------------------------------------------------------
(* The state machine of `add` *)

Running == [status |-> "running", error |-> "", package |-> <<>>]
Succeeded == [status |-> "ok", error |-> "", package |-> <<>>]
Panicked == [status |-> "panic", error |-> "", package |-> <<>>]
Failed(error, package) == [status |-> "err", error |-> error, package |-> package]

Init ==
  /\ edits = <<>>
  /\ edited_text = <<>>
  /\ previous = <<>>
  /\ \E e \in Environments, b \in Batches \cup {WideBatch} :
       /\ b = WideBatch => e \in WideEnvironments
       /\ fs0 = e.fs
       /\ fs = e.fs
       /\ flags = e.flags
       /\ packages = b
  /\ writes = <<>>
  /\ pc = "from_flags"
  /\ outcome = Running
  /\ config_file = NoConfig
  /\ package_reqs = <<>>
  /\ futures = <<>>
  /\ package_and_version_result = 0
  /\ selected_packages = <<>>
  /\ config_file_contents = <<>>
  /\ existing_imports = <<>>
  /\ import_list = <<>>
  /\ new_text = <<>>

\* `add` returns the error
Bail(error, package) ==
  /\ outcome' = Failed(error, package)
  /\ pc' = "done"

\* from_flags, lines 131-137: a native config is found
FromFlagsDeno ==
  /\ pc = "from_flags"
  /\ maybe_config_file(flags, fs).found
  /\ LET deno == maybe_config_file(flags, fs) IN
     IF supported_config_name(deno.path)
       THEN /\ config_file' = deno
            /\ pc' = "parse"
            /\ UNCHANGED outcome
       ELSE /\ Bail("UnsupportedConfig", <<>>)
            /\ UNCHANGED config_file
  /\ UNCHANGED <<edits, edited_text, previous, fs0, fs, flags, packages, writes, package_reqs, futures,
                 package_and_version_result, selected_packages,
                 config_file_contents, existing_imports, import_list, new_text>>

\* FromFlagsNpm, were the feature flag not consulted
FromFlagsNpm_NoFlag ==
  /\ pc = "from_flags"
  /\ ~maybe_config_file(flags, fs).found
  /\ maybe_package_json(flags, fs).found
  /\ config_file' = maybe_package_json(flags, fs)
  /\ pc' = "parse"
  /\ UNCHANGED <<edits, edited_text, previous, fs0, fs, flags, packages, writes, outcome, package_reqs, futures,
                 package_and_version_result, selected_packages,
                 config_file_contents, existing_imports, import_list, new_text>>

\* from_flags, lines 138-140: no native config, a package.json, the feature flag
FromFlagsNpm ==
  /\ pc = "from_flags"
  /\ ~maybe_config_file(flags, fs).found
  /\ maybe_package_json(flags, fs).found
  /\ flags.future
  /\ config_file' = maybe_package_json(flags, fs)
  /\ pc' = "parse"
  /\ UNCHANGED <<edits, edited_text, previous, fs0, fs, flags, packages, writes, outcome, package_reqs, futures,
                 package_and_version_result, selected_packages,
                 config_file_contents, existing_imports, import_list, new_text>>

\* from_flags, lines 141-160: deno.json is created and discovery runs again
FromFlagsCreate ==
  /\ pc = "from_flags"
  /\ ~maybe_config_file(flags, fs).found
  /\ ~(maybe_package_json(flags, fs).found /\ flags.future)
  /\ fs' = [fs EXCEPT !["deno.json"] = EmptyObjectText]
  /\ writes' = Append(writes, [path |-> "deno.json", text |-> EmptyObjectText,
                                site |-> "from_flags"])
  /\ LET again == maybe_config_file(flags, fs') IN
     IF again.found
       THEN /\ config_file' = [again EXCEPT !.format = "deno.json"]
            /\ pc' = "parse"
            /\ UNCHANGED outcome
       ELSE /\ Bail("ConfigNotFound", <<>>)
            /\ UNCHANGED config_file
  /\ UNCHANGED <<edits, edited_text, previous, fs0, flags, packages, package_reqs, futures,
                 package_and_version_result, selected_packages,
                 config_file_contents, existing_imports, import_list, new_text>>

\* the futures of lines 234-247: none is polled yet
new_futures(reqs) == [i \in 1..Len(reqs) |-> [state |-> "pending", output |-> NoResult]]

\* ParseRequirements, were the shape of the dependency section checked before
\* the futures are built
ParseRequirements_ShapeFirst ==
  /\ pc = "parse"
  /\ LET parsed == parse_all(packages) IN
     IF config_file.scheme # "file"
       THEN /\ Bail("RemoteConfig", <<>>)
            /\ UNCHANGED <<package_reqs, futures>>
     ELSE IF ~parsed.ok
       THEN /\ Bail("ParseError", parsed.bad)
            /\ package_reqs' = parsed.reqs
            /\ UNCHANGED futures
     ELSE IF ~existing_imports_of(config_file).ok
       THEN /\ Bail("ConfigShape", <<>>)
            /\ package_reqs' = parsed.reqs
            /\ UNCHANGED futures
     ELSE /\ package_reqs' = parsed.reqs
          /\ futures' = new_futures(parsed.reqs)
          /\ pc' = "resolve"
          /\ UNCHANGED outcome
  /\ UNCHANGED <<edits, edited_text, previous, fs0, fs, flags, packages, writes, config_file,
                 package_and_version_result, selected_packages,
                 config_file_contents, existing_imports, import_list, new_text>>

\* lines 185-247: the manifest must be local, every identifier is parsed, the
\* futures are built
ParseRequirements ==
  /\ pc = "parse"
  /\ LET parsed == parse_all(packages) IN
     IF config_file.scheme # "file"
       THEN /\ Bail("RemoteConfig", <<>>)
            /\ UNCHANGED <<package_reqs, futures>>
     ELSE IF ~parsed.ok
       THEN /\ Bail("ParseError", parsed.bad)
            /\ package_reqs' = parsed.reqs
            /\ UNCHANGED futures
     ELSE /\ package_reqs' = parsed.reqs
          /\ futures' = new_futures(parsed.reqs)
          /\ pc' = "resolve"
          /\ UNCHANGED outcome
  /\ UNCHANGED <<edits, edited_text, previous, fs0, fs, flags, packages, writes, config_file,
                 package_and_version_result, selected_packages,
                 config_file_contents, existing_imports, import_list, new_text>>

InFlight(futs) == {i \in 1..Len(futs) : futs[i].state = "inflight"}
Pending(futs) == {i \in 1..Len(futs) : futs[i].state = "pending"}

\* room, were the stream buffered without a limit
room_Unlimited(futs) == Cardinality(Pending(futs))

\* how many futures a poll of the buffer starts
room(futs) ==
  LET free == BufferLimit - Cardinality(InFlight(futs))
      left == Cardinality(Pending(futs))
  IN  IF left < free THEN left ELSE free

\* BufferUnordered::poll_next, first half: futures are taken from the stream, in
\* order, while fewer than the limit are in progress
start_from(futs, first, n) ==
  [i \in 1..Len(futs) |->
     IF i >= first /\ i < first + n
       THEN [futs[i] EXCEPT !.state = "inflight"] ELSE futs[i]]

fill(futs) == start_from(futs, Len(futs) - Cardinality(Pending(futs)) + 1, room(futs))

\* a poll of buffered.next() that starts lookups and finds none complete
PollPending ==
  /\ pc = "resolve"
  /\ fill(futures) # futures
  /\ futures' = fill(futures)
  /\ UNCHANGED <<edits, edited_text, previous, fs0, fs, flags, packages, writes, pc, outcome, config_file,
                 package_reqs, package_and_version_result, selected_packages,
                 config_file_contents, existing_imports, import_list, new_text>>

\* the futures once `add` has returned: those in progress are dropped
dropped(futs) ==
  [i \in 1..Len(futs) |->
     IF futs[i].state = "inflight" THEN [futs[i] EXCEPT !.state = "dropped"]
     ELSE futs[i]]

\* Collect, were a result not collected when an entry of its import name is
\* collected already
Collect_Dedup(polled, i, result) ==
  /\ i \in InFlight(polled)
  /\ futures' = [polled EXCEPT ![i] = [state |-> "done", output |-> result]]
  /\ selected_packages' =
       IF \E k \in 1..Len(selected_packages) :
            selected_packages[k].import_name = result.import_name
         THEN selected_packages
         ELSE Append(selected_packages, result)
  /\ package_and_version_result' = i
  /\ UNCHANGED <<edits, edited_text, previous, fs0, fs, flags, packages, writes, pc, outcome, config_file,
                 package_reqs, config_file_contents, existing_imports,
                 import_list, new_text>>

\* Collect, were the entry put into the dependency map as soon as its lookup
\* completes
Collect_MergeNow(polled, i, result) ==
  /\ i \in InFlight(polled)
  /\ futures' = [polled EXCEPT ![i] = [state |-> "done", output |-> result]]
  /\ selected_packages' = Append(selected_packages, result)
  /\ package_and_version_result' = i
  /\ existing_imports' = merge_selected(existing_imports, is_npm(config_file), <<result>>)
  /\ UNCHANGED <<edits, edited_text, previous, fs0, fs, flags, packages, writes, pc, outcome, config_file,
                 package_reqs, config_file_contents, import_list, new_text>>

\* lines 250-258 on the result of lookup i, the buffer being `polled`
Collect(polled, i, result) ==
  /\ i \in InFlight(polled)
  /\ futures' = [polled EXCEPT ![i] = [state |-> "done", output |-> result]]
  /\ selected_packages' = Append(selected_packages, result)
  /\ package_and_version_result' = i
  /\ UNCHANGED <<edits, edited_text, previous, fs0, fs, flags, packages, writes, pc, outcome, config_file,
                 package_reqs, config_file_contents, existing_imports,
                 import_list, new_text>>

\* lines 249-258: lookup i completes with a version and its entry is collected
YieldSelected(i, version) ==
  /\ pc = "resolve"
  /\ Collect(fill(futures), i,
             find_package_and_select_version_for_req(package_reqs[i], <<version>>))

\* FailNotFound, were the error to name the first requirement of the batch
FailNotFound_FirstName(polled, i, result) ==
  /\ i \in InFlight(polled)
  /\ futures' = dropped([polled EXCEPT ![i] = [state |-> "done", output |-> result]])
  /\ Bail("NotFound", registry_prefix(package_reqs[1]) \o package_reqs[1].name)
  /\ package_and_version_result' = i
  /\ UNCHANGED <<edits, edited_text, previous, fs0, fs, flags, packages, writes, config_file, package_reqs,
                 selected_packages, config_file_contents, existing_imports,
                 import_list, new_text>>


\* FailNotFound, were the loop to go on after the error is seen
FailNotFound_KeepPolling(polled, i, result) ==
  /\ i \in InFlight(polled)
  /\ futures' = [polled EXCEPT ![i] = [state |-> "done", output |-> result]]
  /\ outcome' = Failed("NotFound", result.package_name)
  /\ package_and_version_result' = i
  /\ UNCHANGED <<edits, edited_text, previous, fs0, fs, flags, packages, writes, pc, config_file, package_reqs,
                 selected_packages, config_file_contents, existing_imports,
                 import_list, new_text>>

\* lines 250-255 on the result of lookup i, the buffer being `polled`
FailNotFound(polled, i, result) ==
  /\ i \in InFlight(polled)
  /\ futures' = dropped([polled EXCEPT ![i] = [state |-> "done", output |-> result]])
  /\ Bail("NotFound", result.package_name)
  /\ package_and_version_result' = i
  /\ UNCHANGED <<edits, edited_text, previous, fs0, fs, flags, packages, writes, config_file, package_reqs,
                 selected_packages, config_file_contents, existing_imports,
                 import_list, new_text>>

\* YieldNotFound, were a requirement without a version skipped and the loop
\* continued
YieldNotFound_Skip(i) ==
  /\ pc = "resolve"
  /\ i \in InFlight(fill(futures))
  /\ futures' = [fill(futures) EXCEPT ![i] =
                  [state |-> "done",
                   output |-> find_package_and_select_version_for_req(package_reqs[i], <<>>)]]
  /\ package_and_version_result' = i
  /\ UNCHANGED <<edits, edited_text, previous, fs0, fs, flags, packages, writes, pc, outcome, config_file,
                 package_reqs, selected_packages, config_file_contents,
                 existing_imports, import_list, new_text>>

\* lines 249-255: lookup i completes without a version and `add` fails
YieldNotFound(i) ==
  /\ pc = "resolve"
  /\ FailNotFound(fill(futures), i,
                  find_package_and_select_version_for_req(package_reqs[i], <<>>))

\* str::trim().is_empty()
is_blank(text) == \A i \in 1..Len(text) : text[i] \in Blank

\* ReadConfig, were the loop left as soon as no requirement waits to be started
ReadConfig_Early ==
  /\ pc = "resolve"
  /\ Pending(fill(futures)) = {}
  /\ LET contents == IF is_blank(fs[config_file.path]) THEN EmptyObjectText
                     ELSE fs[config_file.path]
         ast == parse_to_ast(contents)
     IN  /\ config_file_contents' = contents
         /\ IF ~ast.ok THEN Bail("ManifestSyntax", <<>>)
            ELSE IF ast.value.kind # "object" THEN Bail("NoObject", <<>>)
            ELSE pc' = "merge" /\ UNCHANGED outcome
  /\ futures' = fill(futures)
  /\ UNCHANGED <<edits, edited_text, previous, fs0, fs, flags, packages, writes, config_file, package_reqs,
                 package_and_version_result, selected_packages, existing_imports,
                 import_list, new_text>>

\* lines 249 and 262-279: the stream is exhausted, the manifest is read and parsed
ReadConfig ==
  /\ pc = "resolve"
  /\ \A i \in 1..Len(futures) : futures[i].state = "done"
  /\ LET contents == IF is_blank(fs[config_file.path]) THEN EmptyObjectText
                     ELSE fs[config_file.path]
         ast == parse_to_ast(contents)
     IN  /\ config_file_contents' = contents
         /\ IF ~ast.ok THEN Bail("ManifestSyntax", <<>>)
            ELSE IF ast.value.kind # "object" THEN Bail("NoObject", <<>>)
            ELSE pc' = "merge" /\ UNCHANGED outcome
  /\ UNCHANGED <<edits, edited_text, previous, fs0, fs, flags, packages, writes, config_file, package_reqs, futures,
                 package_and_version_result, selected_packages, existing_imports,
                 import_list, new_text>>

\* lines 281-308: the existing dependency map is read, the collected entries
\* are inserted, the list is sorted
MergeEntries ==
  /\ pc = "merge"
  /\ LET existing == existing_imports_of(config_file) IN
     IF ~existing.ok
       THEN /\ Bail("ConfigShape", <<>>)
            /\ UNCHANGED <<existing_imports, import_list>>
       ELSE /\ existing_imports' =
                 merge_selected(existing.map, is_npm(config_file), selected_packages)
            /\ import_list' = sort_by_key(existing_imports')
            /\ pc' = "write"
            /\ UNCHANGED outcome
  /\ UNCHANGED <<edits, edited_text, previous, fs0, fs, flags, packages, writes, config_file, package_reqs, futures,
                 package_and_version_result, selected_packages,
                 config_file_contents, new_text>>

\* lines 309-324: the new text is computed and written
WriteConfig ==
  /\ pc = "write"
  /\ LET updated == update_config_file_content(
                      parse_to_ast(config_file_contents).value, config_file_contents,
                      generate_imports(import_list), imports_key(config_file))
     IN  IF updated.panic
           THEN /\ outcome' = Panicked
                /\ pc' = "done"
                /\ UNCHANGED <<fs, writes, new_text>>
           ELSE /\ new_text' = updated.text
                /\ fs' = [fs EXCEPT ![config_file.path] = updated.text]
                /\ writes' = Append(writes, [path |-> config_file.path,
                                              text |-> updated.text, site |-> "add"])
                /\ pc' = "cache"
                /\ UNCHANGED outcome
  /\ edits' = text_changes(parse_to_ast(config_file_contents).value,
                           generate_imports(import_list), imports_key(config_file))
  /\ edited_text' = IF edits' = <<>> THEN <<>>
                    ELSE apply_text_change(config_file_contents, edits'[1])
  /\ UNCHANGED <<previous, fs0, flags, packages, config_file, package_reqs, futures,
                 package_and_version_result, selected_packages,
                 config_file_contents, existing_imports, import_list>>

\* lines 329-335: the dependencies are cached (with the feature flag) and
\* `add` returns Ok
Finish ==
  /\ pc = "cache"
  /\ outcome' = Succeeded
  /\ pc' = "done"
  /\ UNCHANGED <<edits, edited_text, previous, fs0, fs, flags, packages, writes, config_file, package_reqs, futures,
                 package_and_version_result, selected_packages,
                 config_file_contents, existing_imports, import_list, new_text>>

\* lines 331-333: load_top_level_deps fails after the manifest is written
FinishCacheError ==
  /\ pc = "cache"
  /\ flags.future
  /\ Bail("CacheDeps", <<>>)
  /\ UNCHANGED <<edits, edited_text, previous, fs0, fs, flags, packages, writes, config_file, package_reqs, futures,
                 package_and_version_result, selected_packages,
                 config_file_contents, existing_imports, import_list, new_text>>

\* `add` is run again with the same flags and identifiers, in the directory the
\* first run left, once that run has returned Ok
RunAgain ==
  /\ pc = "done"
  /\ outcome = Succeeded
  /\ previous = <<>>
  /\ Len(packages) <= MaxAgain
  /\ previous' = <<[import_list |-> import_list, text |-> fs[config_file.path]]>>
  /\ fs0' = fs
  /\ writes' = <<>>
  /\ pc' = "from_flags"
  /\ outcome' = Running
  /\ config_file' = NoConfig
  /\ package_reqs' = <<>>
  /\ futures' = <<>>
  /\ package_and_version_result' = 0
  /\ selected_packages' = <<>>
  /\ config_file_contents' = <<>>
  /\ existing_imports' = <<>>
  /\ import_list' = <<>>
  /\ new_text' = <<>>
  /\ edits' = <<>>
  /\ edited_text' = <<>>
  /\ UNCHANGED <<fs, flags, packages>>

\* the versions the registries answer in this run
Answers == IF previous = <<>> THEN Versions ELSE LaterVersions

Next ==
  \/ FromFlagsDeno
  \/ FromFlagsNpm
  \/ FromFlagsCreate
  \/ ParseRequirements
  \/ PollPending
  \/ \E i \in 1..Len(futures), version \in Answers : YieldSelected(i, version)
  \/ \E i \in 1..Len(futures) : YieldNotFound(i)
  \/ ReadConfig
  \/ MergeEntries
  \/ WriteConfig
  \/ Finish
  \/ FinishCacheError
  \/ RunAgain

Spec == Init /\ [][Next]_vars

\* a lookup that was started completes: the steps of YieldSelected and of
\* YieldNotFound, with the buffer polled once
Completes ==
  /\ pc = "resolve"
  /\ \E polled \in {fill(futures)} :
       \E i \in InFlight(polled) :
         \/ \E version \in Answers :
              Collect(polled, i,
                      find_package_and_select_version_for_req(package_reqs[i], <<version>>))
         \/ FailNotFound(polled, i,
                         find_package_and_select_version_for_req(package_reqs[i], <<>>))

\* buffered.next() answers None: the steps that leave the loop of lines 249-260
\* with every lookup completed (those of ReadConfig)
EndOfStream ==
  /\ pc = "resolve"
  /\ \A i \in 1..Len(futures) : futures[i].state = "done"
  /\ pc' \in {"merge", "done"}
  /\ outcome' \in {Running, Failed("ManifestSyntax", <<>>), Failed("NoObject", <<>>)}
  /\ config_file_contents' \in {EmptyObjectText, fs[config_file.path]}
  /\ UNCHANGED <<edits, edited_text, previous, fs0, fs, flags, packages, writes, config_file, package_reqs,
                 futures, package_and_version_result, selected_packages,
                 existing_imports, import_list, new_text>>

\* a step of the loop of lines 249-260: the stream is polled, a lookup
\* completes, or the stream ends
LoopStep == PollPending \/ Completes \/ EndOfStream

\* the working directories of the runs checked for termination: a deno.json
\* with entries, a package.json with the feature flag, no manifest
LiveEnvironments ==
  {[flags |-> Discover(FALSE), fs |-> [NoFiles EXCEPT !["deno.json"] = DenoImports]],
   [flags |-> Discover(TRUE), fs |-> [NoFiles EXCEPT !["package.json"] = PkgDeps]],
   [flags |-> Discover(FALSE), fs |-> NoFiles]}

LiveInit == Init /\ [flags |-> flags, fs |-> fs0] \in LiveEnvironments

\* every lookup that is started completes and the loop is run
FairSpec == LiveInit /\ [][Next]_vars /\ WF_vars(LoopStep)


------------------------------------------------------------------------------
(* Properties *)

\* the auto-creation of from_flags has written
Created == writes # <<>> /\ writes[1].site = "from_flags"

\* the files as from_flags leaves them
AfterDiscovery ==
  IF Created THEN [fs0 EXCEPT !["deno.json"] = <<"{", "}", "\n">>] ELSE fs0

\* the manifest has not been written with merged content
NoFinalWrite == \A k \in 1..Len(writes) : writes[k].site = "from_flags"

\* every requirement of the batch has been looked up and has a version
AllSelected ==
  /\ Len(futures) = Len(packages)
  /\ \A i \in 1..Len(futures) :
       futures[i].state = "done" /\ futures[i].output.tag = "Selected"

\* the merge of lines 281-308 has run
Merged ==
  \/ pc \in {"write", "cache"}
  \/ pc = "done" /\ (outcome.status \in {"ok", "panic"} \/ outcome.error = "CacheDeps")

Keys(map) == {map[i][1] : i \in 1..Len(map)}
ValueOf(map, k) == map[CHOOSE i \in 1..Len(map) : map[i][1] = k][2]

\* C1: when a requirement resolves to Not-Found, or `add` fails with any error
\* raised before the manifest is patched, `add` has failed and the files are
\* those from_flags left: the files `add` started with, plus the deno.json
\* holding "{}\n" when it was auto-created; nothing resolved is written.
C1_BatchAtomicity ==
  /\ ((\E i \in 1..Len(futures) : futures[i].output.tag = "NotFound")
        \/ (outcome.status = "err" /\ outcome.error # "CacheDeps"))
       => /\ outcome.status = "err"
          /\ pc = "done"
          /\ fs = AfterDiscovery
          /\ NoFinalWrite
  /\ pc \in {"parse", "resolve"} => fs = AfterDiscovery /\ NoFinalWrite

\* C1 witness: a lookup answers Not-Found after another requirement of the
\* batch was resolved, the manifest holding entries
C1_Witness ==
  /\ outcome.error = "NotFound"
  /\ selected_packages # <<>>
  /\ fs0["deno.json"] = DenoImports
  /\ fs = fs0

\* C2: at most 10 lookups are started and not completed.
C2_BoundedInFlight == Cardinality(InFlight(futures)) <= 10

\* C2 witness: 10 lookups are in flight and a requirement waits
C2_Witness ==
  /\ Cardinality(InFlight(futures)) = 10
  /\ Pending(futures) # {}

\* C3: the lookup whose result is Not-Found is the one the loop took last, `add`
\* has failed at once with an error naming that requirement's registry-prefixed
\* name, the lookups that were in flight are dropped and no step follows.
C3_FailFast ==
  /\ \A i \in 1..Len(futures) :
       futures[i].output.tag = "NotFound"
         => /\ outcome = [status |-> "err", error |-> "NotFound",
                          package |-> (IF package_reqs[i].kind = "npm"
                                         THEN <<"n", "p", "m", ":">>
                                         ELSE <<"j", "s", "r", ":">>)
                                      \o package_reqs[i].name]
            /\ pc = "done"
            /\ package_and_version_result = i
  /\ outcome.error = "NotFound"
       => /\ InFlight(futures) = {}
          /\ \E i \in 1..Len(futures) : futures[i].output.tag = "NotFound"
          /\ ~ENABLED Next

\* C3 witness: `add` failed on the second requirement while the lookup of the
\* first was in flight
C3_Witness ==
  /\ outcome.error = "NotFound"
  /\ Len(futures) = 2
  /\ futures[1].state = "dropped"
  /\ package_and_version_result = 2

\* C4 as stated: a run that ends with the shape error has started no lookup.
C4_ShapeErrorBeforeLookups ==
  outcome.error = "ConfigShape"
    => \A i \in 1..Len(futures) : futures[i].state = "pending"

\* C4, amended: a run that ends with the shape error has looked up every
\* requirement of the batch with success, has merged no entry and has not
\* written the manifest; the manifest is a native config.
C4_ShapeErrorAfterLookups ==
  outcome.error = "ConfigShape"
    => /\ AllSelected
       /\ existing_imports = <<>>
       /\ NoFinalWrite
       /\ config_file.kind = "Deno"

\* C4 witness: the shape error after two lookups
C4_Witness ==
  /\ outcome.error = "ConfigShape"
  /\ Len(futures) = 2
  /\ AllSelected

\* C5: once the identifiers are parsed, a list with a malformed identifier has
\* made `add` fail with no future built; the parse error reports the first
\* malformed identifier.
C5_ParseErrorBeforeLookups ==
  /\ (pc \notin {"from_flags", "parse"}
        /\ \E k \in 1..Len(packages) : ~parse_package(packages[k]).ok)
       => outcome.status = "err" /\ pc = "done" /\ futures = <<>>
  /\ outcome.error = "ParseError"
       => /\ futures = <<>>
          /\ \E k \in 1..Len(packages) :
               /\ outcome.package = packages[k]
               /\ ~parse_package(packages[k]).ok
               /\ \A j \in 1..(k - 1) : parse_package(packages[j]).ok

\* C5 witness: the malformed identifier follows a well-formed one
C5_Witness ==
  /\ outcome.error = "ParseError"
  /\ Len(packages) = 2
  /\ parse_package(packages[1]).ok

\* C6 as stated: a native config that exists is the one selected.
C6_NativeAlwaysSelected ==
  (pc # "from_flags" /\ maybe_config_file(flags, fs0).found)
    => config_file = maybe_config_file(flags, fs0)

\* C6, amended: after from_flags, a native config found at the start is the manifest
\* (from_flags fails on one named neither deno.json nor deno.jsonc); else the
\* package.json is, with the feature flag; else deno.json was written with
\* "{}\n" first and is the manifest when the second discovery finds it, `add`
\* failing otherwise.  The auto-creation writes only when no native config was
\* found, and once.
C6_Discovery ==
  pc # "from_flags" =>
    /\ maybe_config_file(flags, fs0).found =>
         /\ ~Created
         /\ IF maybe_config_file(flags, fs0).path \in {"deno.json", "deno.jsonc"}
              THEN config_file = maybe_config_file(flags, fs0)
              ELSE config_file = NoConfig /\ outcome.error = "UnsupportedConfig"
    /\ (~maybe_config_file(flags, fs0).found
          /\ fs0["package.json"] # NoFile /\ flags.future) =>
         /\ ~Created
         /\ config_file.kind = "Npm"
         /\ config_file.path = "package.json"
         /\ config_file.text = fs0["package.json"]
    /\ (~maybe_config_file(flags, fs0).found
          /\ ~(fs0["package.json"] # NoFile /\ flags.future)) =>
         /\ Created
         /\ writes[1] = [path |-> "deno.json", text |-> <<"{", "}", "\n">>,
                         site |-> "from_flags"]
         /\ IF maybe_config_file(flags, AfterDiscovery).found
              THEN /\ config_file.kind = "Deno"
                   /\ config_file.path = "deno.json"
                   /\ config_file.text = <<"{", "}", "\n">>
              ELSE config_file = NoConfig /\ outcome.error = "ConfigNotFound"
    /\ \A k \in 2..Len(writes) : writes[k].site # "from_flags"

\* C6 witness: a package.json without the feature flag: deno.json is created
\* and selected
C6_Witness ==
  /\ pc = "parse"
  /\ fs0["package.json"] # NoFile
  /\ ~flags.future
  /\ Created
  /\ config_file.kind = "Deno"

MergeRule(old, npm) ==
  /\ Keys(existing_imports) =
       Keys(old) \cup {selected_packages[i].import_name : i \in 1..Len(selected_packages)}
  /\ Cardinality(Keys(existing_imports)) = Len(existing_imports)
  /\ \A i \in 1..Len(selected_packages) :
       (\A j \in (i + 1)..Len(selected_packages) :
          selected_packages[j].import_name # selected_packages[i].import_name)
         => ValueOf(existing_imports, selected_packages[i].import_name)
              = dependency_entry(npm, selected_packages[i])[2]
  /\ \A k \in Keys(old) :
       (\A i \in 1..Len(selected_packages) : selected_packages[i].import_name # k)
         => ValueOf(existing_imports, k) = ValueOf(old, k)

\* C8: once merged, the map's keys are the existing keys and the import names
\* of the collected entries, each once; an import name of a collected entry
\* holds the specifier of the entry collected last under it; every other
\* existing key holds its previous specifier.
C8_MergeRule ==
  Merged => MergeRule(existing_imports_of(config_file).map, config_file.kind = "Npm")

\* C8 witness: one existing entry is overwritten, one is kept and one is added
C8_Witness ==
  /\ Merged
  /\ config_file.text = DenoImports
  /\ Len(selected_packages) = 2
  /\ Len(existing_imports) = 3
  /\ ValueOf(existing_imports, <<"a">>) # <<"n", "p", "m", ":", "a", "@", "^", "0">>

\* C9: once merged, the list handed to the renderer holds the entries of the
\* merged map, in strictly ascending byte-wise order of name.
C9_SortedList ==
  Merged =>
    /\ \A i \in 1..(Len(import_list) - 1) :
         StrLess(import_list[i][1], import_list[i + 1][1])
    /\ Len(import_list) = Len(existing_imports)
    /\ {import_list[i] : i \in 1..Len(import_list)}
         = {existing_imports[i] : i \in 1..Len(existing_imports)}

\* C9 witness: a successful run in which the lookups completed out of request
\* order and the sort moved entries
C9_Witness ==
  /\ outcome.status = "ok"
  /\ Len(import_list) = 3
  /\ import_list # existing_imports
  /\ Len(selected_packages) = 2
  /\ package_and_version_result = 1

\* C10: a successful run ends with the list that the run whose lookups
\* complete in request order ends with, for the same answers.
C10_OrderInsensitive ==
  outcome.status = "ok" =>
    import_list =
      sort_by_key(merge_selected(existing_imports_of(config_file).map,
                                 is_npm(config_file),
                                 [i \in 1..Len(futures) |-> futures[i].output]))

\* the entries of the dependency section found in a property, as pairs
EntriesOfProp(prop) ==
  IF prop = <<>> \/ prop[1].value.kind # "object" THEN <<>>
  ELSE string_entries(prop[1].value.props)

\* the entries of the dependency section a manifest text holds
SectionEntries(text, key) == EntriesOfProp(section_of(loaded_json(text), key))

\* the section `now` holds every entry added by this run once, and otherwise
\* what the section `before` holds
AddedOnce(now, before, npm) ==
  /\ \A i \in 1..Len(selected_packages) :
       /\ Cardinality({k \in 1..Len(now) :
                         now[k][1] = selected_packages[i].import_name}) = 1
       /\ \E k \in 1..Len(now) : now[k] = dependency_entry(npm, selected_packages[i])
  /\ {now[k] : k \in {j \in 1..Len(now) :
                        \A i \in 1..Len(selected_packages) :
                          now[j][1] # selected_packages[i].import_name}}
       = {before[k] : k \in {j \in 1..Len(before) :
                               \A i \in 1..Len(selected_packages) :
                                 before[j][1] # selected_packages[i].import_name}}

\* C11: when `add` has run again for the same package after a run that
\* returned Ok, and the lookups of the second run have all answered a version,
\* the manifest's dependency section holds the import name once, with the
\* specifier of the version the second run resolved, and every other entry as
\* the first run left it.
C11_AddedTwiceOnce ==
  (previous # <<>> /\ pc = "done" /\ AllSelected)
    => AddedOnce(SectionEntries(fs[config_file.path], imports_key(config_file)),
                 SectionEntries(previous[1].text, imports_key(config_file)),
                 is_npm(config_file))

\* the raw identifier asks for a "~" constraint
Tilde(raw) == \E k \in 1..(Len(raw) - 1) : raw[k] = "@" /\ raw[k + 1] = "~"

\* C12: the result of a completed lookup.  With a version, it is Selected:
\* the import name is the requirement's bare name, the canonical name is the
\* name with the registry's prefix and the version expression is "~" and the
\* version when the identifier's constraint begins with "~", "^" and the
\* version otherwise.  Without one, it is NotFound with the prefixed name.
C12_ResolvedEntry ==
  \A i \in 1..Len(futures) :
    futures[i].state = "done" =>
      LET out    == futures[i].output
          prefix == IF package_reqs[i].kind = "npm" THEN <<"n", "p", "m", ":">>
                    ELSE <<"j", "s", "r", ":">>
      IN  /\ out.tag \in {"Selected", "NotFound"}
          /\ out.package_name = prefix \o package_reqs[i].name
          /\ out.tag = "Selected" =>
               /\ out.import_name = package_reqs[i].name
               /\ \E v \in Answers :
                    out.version_req = (IF Tilde(packages[i]) THEN <<"~">> ELSE <<"^">>) \o v

\* C12 witness: a batch of both registries, one requirement with a "~"
\* constraint resolved and one without
C12_Witness ==
  /\ Len(futures) = 2
  /\ futures[1].state = "done" /\ futures[2].state = "done"
  /\ package_reqs[1].kind = "npm" /\ package_reqs[2].kind = "jsr"
  /\ futures[1].output.version_req = <<"~", "2">>
  /\ futures[2].output.version_req = <<"^", "2">>

\* the name of a jsr package inside the npm scope @jsr: the leading "@" is
\* dropped and "/" becomes "__"
RECURSIVE Underscored(_)
Underscored(name) ==
  IF name = <<>> THEN <<>>
  ELSE (IF Head(name) = "/" THEN <<"_", "_">> ELSE <<Head(name)>>)
         \o Underscored(Tail(name))

JsrAsNpm(name) ==
  <<"n", "p", "m", ":", "@", "j", "s", "r", "/">>
    \o Underscored(IF Head(name) = "@" THEN Tail(name) ELSE name)

\* the specifier the manifest kind stores for a resolved entry
StoredSpecifier(npm, sel) ==
  IF ~npm THEN sel.package_name \o <<"@">> \o sel.version_req
  ELSE IF SubSeq(sel.package_name, 1, 4) = <<"n", "p", "m", ":">> THEN sel.version_req
  ELSE JsrAsNpm(sel.import_name) \o <<"@">> \o sel.version_req

\* C13: once merged, the map holds under the import name of every collected
\* entry (the last collected of that name) the specifier of the manifest kind:
\* canonical name, "@" and version expression in a deno.json; in a
\* package.json the version expression alone for an npm entry and
\* npm:@jsr/<scope>__<name>@<version expression> for a jsr entry.
C13_EntryForm ==
  Merged =>
    \A i \in 1..Len(selected_packages) :
      (\A j \in (i + 1)..Len(selected_packages) :
         selected_packages[j].import_name # selected_packages[i].import_name)
        => /\ selected_packages[i].import_name \in Keys(existing_imports)
           /\ ValueOf(existing_imports, selected_packages[i].import_name)
                = StoredSpecifier(config_file.kind = "Npm", selected_packages[i])

\* C13 witness: a package.json has received an npm entry and a scoped jsr entry
C13_Witness ==
  /\ Merged
  /\ config_file.kind = "Npm"
  /\ packages = <<RawNpmA, RawJsrSB>>
  /\ ValueOf(existing_imports, <<"a">>) = <<"^", "2">>
  /\ ValueOf(existing_imports, <<"@", "s", "/", "b">>)
       = <<"n", "p", "m", ":", "@", "j", "s", "r", "/", "s", "_", "_", "b", "@", "^", "2">>

\* the property of the dependency section in the text `add` read
SectionRead ==
  object_get(parse_to_ast(config_file_contents).value, imports_key(config_file))

\* the one edit replaces what stands between the braces of the object `lit`
\* (byte offsets open and close) and nothing else
BetweenBraces(open, close) ==
  /\ Len(edits) = 1
  /\ config_file_contents[open + 1] = "{"
  /\ config_file_contents[close + 1] = "}"
  /\ edits[1].start = open + 1
  /\ edits[1].end = close
  /\ edited_text = SubSeq(config_file_contents, 1, open + 1)
                     \o edits[1].new_text
                     \o SubSeq(config_file_contents, close + 1, Len(config_file_contents))

\* C14: when the text read has the dependency section with an object value,
\* the patcher has computed one edit, whose range is what stands between the
\* braces of that object: the edited text is the text read up to and with the
\* opening brace, the rendered body, and the text read from the closing brace
\* on.
C14_PatchFrame ==
  (edits # <<>> /\ SectionRead # <<>> /\ SectionRead[1].value.kind = "object")
    => /\ BetweenBraces(SectionRead[1].value.start, SectionRead[1].value.end - 1)
       /\ edits[1].new_text = generate_imports(import_list)

\* C14 witness: a section with two entries is patched after two lookups
C14_Witness ==
  /\ edits # <<>>
  /\ config_file_contents = DenoImports
  /\ Len(selected_packages) = 2
  /\ Len(import_list) = 3

\* the place of the last closing brace of the text read, counted from 1
LastBrace ==
  CHOOSE k \in 1..Len(config_file_contents) :
    /\ config_file_contents[k] = "}"
    /\ \A j \in (k + 1)..Len(config_file_contents) : config_file_contents[j] # "}"

\* the section as it is inserted: "<key>": {\n <body> }
InsertedSection(body) ==
  <<"\"">>
    \o (IF config_file.kind = "Npm"
          THEN <<"d", "e", "p", "e", "n", "d", "e", "n", "c", "i", "e", "s">>
          ELSE <<"i", "m", "p", "o", "r", "t", "s">>)
    \o <<"\"", ":", " ", "{", "\n", " ">> \o body \o <<" ", "}">>

\* C15: when the text read has no property with the dependency-section key,
\* the patcher has computed one edit: an insertion (empty range) right before
\* the closing brace of the top-level object, of the quoted key, a colon and
\* the rendered body in braces with a newline after the opening brace; the
\* text read stands unchanged before and after it.
C15_Insertion ==
  (edits # <<>> /\ SectionRead = <<>>)
    => /\ Len(edits) = 1
       /\ edits[1].start = LastBrace - 1
       /\ edits[1].end = edits[1].start
       /\ edits[1].new_text = InsertedSection(generate_imports(import_list))
       /\ edited_text = SubSeq(config_file_contents, 1, LastBrace - 1)
                          \o InsertedSection(generate_imports(import_list))
                          \o SubSeq(config_file_contents, LastBrace,
                                    Len(config_file_contents))

\* C15 witness: the section is inserted into an object that has another property
C15_Witness ==
  /\ edits # <<>>
  /\ config_file_contents = DenoOther
  /\ Len(import_list) = 2

\* C16: the text handed to update_config_file_content has the dependency
\* section absent or with an object value, and the patcher never reaches its
\* third branch.
C16_BranchUnreachable ==
  /\ pc = "write" => (SectionRead = <<>> \/ SectionRead[1].value.kind = "object")
  /\ outcome.status # "panic"

\* C17: while lookups may run the dependency map is untouched; a map or list
\* with entries exists only once every requirement of the batch has been
\* looked up and none is in flight.
C17_SingleWriter ==
  /\ pc \in {"from_flags", "parse", "resolve", "merge"}
       => existing_imports = <<>> /\ import_list = <<>>
  /\ (existing_imports # <<>> \/ import_list # <<>>)
       => /\ Len(futures) = Len(packages)
          /\ \A i \in 1..Len(futures) : futures[i].state = "done"
          /\ selected_packages # <<>> => Len(selected_packages) = Len(packages)

\* C17 witness: the map is filled after the lookups of a batch wider than the
\* buffer have completed
C17_Witness ==
  /\ pc = "write"
  /\ Len(futures) > 10
  /\ Len(existing_imports) = 2

\* how often x occurs in the sequence s
Count(s, x) == Cardinality({k \in 1..Len(s) : s[k] = x})

\* the loop has ended with every result collected
Collected ==
  /\ Len(futures) = Len(packages)
  /\ Len(selected_packages) = Len(packages)
  /\ \A i \in 1..Len(futures) :
       /\ futures[i].state = "done"
       /\ futures[i].output.tag = "Selected"
       /\ futures[i].output.import_name = package_reqs[i].name
       /\ Count(selected_packages, futures[i].output)
            = Count([j \in 1..Len(futures) |-> futures[j].output], futures[i].output)

\* C18: when every started lookup completes, the resolution loop ends whenever
\* it runs: at any time there is a later time at which `add` is not in the
\* loop, which is (pc = "resolve") ~> (pc # "resolve").  When it has ended
\* without an error, every requirement has been looked up once and the
\* collected entries are the results of the lookups, one for each requirement.
C18_LoopEndsComplete ==
  /\ []<>(pc # "resolve")
  /\ [](pc \in {"merge", "write", "cache"} => Collected)

\* C18 witness: the loop has ended with the entries of a batch wider than the
\* buffer
C18_Witness ==
  /\ pc = "merge"
  /\ Len(packages) > 10
  /\ Len(selected_packages) = Len(packages)

\* a lookup has answered that its package does not exist
NotFoundSeen == outcome.status = "err" /\ outcome.error = "NotFound"

\* the lookups that have been started
Started == {i \in 1..Len(futures) : futures[i].state # "pending"}

\* C19: once a lookup has answered NotFound, `add` has returned, no lookup is
\* in progress, the results collected are those of the lookups that completed
\* before, and from then on no lookup is started and none completes.
C19_NothingAfterFailure ==
  /\ [](NotFoundSeen =>
         /\ pc = "done"
         /\ InFlight(futures) = {}
         /\ Cardinality({i \in 1..Len(futures) : futures[i].state = "done"})
              = Len(selected_packages) + 1)
  /\ [][NotFoundSeen => futures' = futures /\ selected_packages' = selected_packages]_vars

\* C19 witness: `add` has failed with lookups dropped and a requirement that
\* was never looked up
C19_Witness ==
  /\ NotFoundSeen
  /\ \E i \in 1..Len(futures) : futures[i].state = "dropped"
  /\ \E i \in 1..Len(futures) : futures[i].state = "pending"

\* the top-level properties of a parsed text other than the dependency
\* section, as pairs of the name and the text of the value
OtherProperties(text, obj, key) ==
  {<<obj.props[k].name, SubSeq(text, obj.props[k].value.start + 1, obj.props[k].value.end)>> :
     k \in {j \in 1..Len(obj.props) : obj.props[j].name # key}}

\* the parsed object `obj` has the dependency section as an object whose
\* entries are those of the list, in its order
HoldsSection(obj, key, list) ==
  /\ object_get(obj, key) # <<>>
  /\ is_string_map(object_get(obj, key)[1].value)
  /\ string_entries(object_get(obj, key)[1].value.props) = list

\* the text `written` over the text `read` is a document with the section and
\* the other properties of the text read
WellFormedUpdate(written, ast, read, key, list) ==
  /\ ast.ok
  /\ ast.value.kind = "object"
  /\ HoldsSection(ast.value, key, list)
  /\ OtherProperties(written, ast.value, key)
       = OtherProperties(read, parse_to_ast(read).value, key)

\* C20: when the final write has happened, the text written parses as a
\* document whose top-level object has the dependency section with an object
\* value, the entries of that object are the merged list, and the other
\* top-level properties are those of the text read.
C20_WellFormedWrite ==
  pc = "cache"
    => /\ fs[config_file.path] = new_text
       /\ WellFormedUpdate(new_text, parse_to_ast(new_text), config_file_contents,
                           imports_key(config_file), import_list)

====
